---------------------------- MODULE Spec2Model ----------------------------
(***************************************************************************)
(* prconflict (cmd/prconflict/main.go): insert the unresolved review       *)
(* threads of a pull request into the working copy as conflict-style       *)
(* blocks.                                                                 *)
(*                                                                         *)
(* Text is modelled as a sequence of one-character strings, so that        *)
(* splitting into lines, joining, replacing and trimming are computed      *)
(* character by character as the Go code computes them.                    *)
(***************************************************************************)
EXTENDS Integers, Sequences, FiniteSets, TLC

VARIABLES
    pc,          \* position of main / of the function under study
    dry,         \* *dryRun
    cursor,      \* vars["cursor"] of getUnresolvedCommentIDs
    ids,         \* the id set built by getUnresolvedCommentIDs (unresolvedIDs)
    qlog,        \* the GraphQL queries issued so far, each with the page
                 \* info of its answer: <<[cursor, ok, hasNextPage, endCursor]>>
    seen,        \* the <<isResolved, comment id>> pairs on the pages read
    restPage,    \* opts.Page of fetchReviewComments
    rlog,        \* the REST requests issued so far: <<[page, ok]>>
    all,         \* the comment list built by fetchReviewComments (comments)
    fileThreads, \* main's map path -> line -> lineThread.comments
    pending,     \* paths the range loop of main has not visited yet
    handed,      \* path -> the threads slice passed to injectThreads
    calls,       \* path -> number of injectThreads calls
    src,         \* path -> the line slice of injectThreads after its loop
    disk,        \* path -> the bytes of the file on disk
    orig,        \* path -> the bytes of the file when the run started
    stdout,      \* the bytes printed to standard output
    logged,      \* the diagnostics printed through log.Printf / log.Fatalf
    arg,         \* argument of the pure function under study
    ret          \* its result

vars == <<pc, dry, cursor, ids, qlog, seen, restPage, rlog, all, fileThreads, pending,
          handed, calls, src, disk, orig, stdout, logged, arg, ret>>

-----------------------------------------------------------------------------
(* Bounds *)

MaxBody == 3        \* longest comment body given to sanitize
MaxFileLen == 4     \* most bytes of a file given to injectThreads on its own
MaxLine == 3        \* highest target line of a thread
MaxThreadLen == 1   \* most comments of a thread given to injectThreads on its own
MaxPartial == 1     \* most bytes a failing write leaves behind
MaxId == 2          \* comment ids are 1..MaxId
MaxComments == 2    \* most comments of the listing given to the aggregation on its own
MaxTick == 1        \* creation times are 0, 30, ..., 30 * MaxTick seconds
MaxPages == 3       \* most pages of review threads the remote system has
MaxThreads == 1     \* most review threads on a page
MaxNodes == 1       \* most comments of a review thread
MaxRestPages == 2   \* most pages of the comment listing

-----------------------------------------------------------------------------
(* Text helpers *)

Null == "null"      \* a nil pointer (absent path, line or cursor)

Min(a, b) == IF a < b THEN a ELSE b

SeqsUpTo(S, n) == UNION { [1..k -> S] : k \in 0..n }

Range(s) == { s[i] : i \in DOMAIN s }

RECURSIVE Flatten(_)
Flatten(ss) == IF ss = <<>> THEN <<>> ELSE Head(ss) \o Flatten(Tail(ss))

\* strconv-style decimal rendering of a small non-negative integer (%d)
DigitChar(d) == CASE d = 0 -> "0" [] d = 1 -> "1" [] d = 2 -> "2" [] d = 3 -> "3"
                  [] d = 4 -> "4" [] d = 5 -> "5" [] d = 6 -> "6" [] d = 7 -> "7"
                  [] d = 8 -> "8" [] d = 9 -> "9"

RECURSIVE Itoa(_)
Itoa(n) == IF n < 10 THEN <<DigitChar(n)>>
           ELSE Itoa(n \div 10) \o <<DigitChar(n % 10)>>

\* the characters unicode.IsSpace accepts, among those the model uses
IsSpace(c) == c \in {" ", "\t", "\n", "\r"}

RECURSIVE TrimLeft(_)
TrimLeft(s) == IF s # <<>> /\ IsSpace(Head(s)) THEN TrimLeft(Tail(s)) ELSE s

RECURSIVE TrimRight(_)
TrimRight(s) == IF s # <<>> /\ IsSpace(s[Len(s)])
                THEN TrimRight(SubSeq(s, 1, Len(s) - 1)) ELSE s

TrimSpace(s) == TrimRight(TrimLeft(s))

\* strings.NewReplacer("\n", " ", "\r", " ", "*", "", "/", "").Replace
ReplChar(c) == CASE c = "\n" -> <<" ">>
                 [] c = "\r" -> <<" ">>
                 [] c = "*"  -> <<>>
                 [] c = "/"  -> <<>>
                 [] OTHER    -> <<c>>

Replace(s) == Flatten([i \in DOMAIN s |-> ReplChar(s[i])])

sanitize(s) == TrimSpace(Replace(s))

Unknown == <<"u", "n", "k", "n", "o", "w", "n">>

\* nonEmpty without the substitution
nonEmptyOff(v) == v

nonEmpty(v) == IF v = <<>> THEN Unknown ELSE v

-----------------------------------------------------------------------------
(* Rendering of one thread: buildBlock *)

\* c.created.Format("2006-01-02 15:04"): created counts the seconds since
\* 2024-01-01 00:00 UTC, all within the first ten minutes; the layout keeps
\* the minute and drops the seconds.
FormatTime(t) ==
    <<"2", "0", "2", "4", "-", "0", "1", "-", "0", "1", " ", "0", "0", ":", "0">>
        \o Itoa(t \div 60)

HeaderPrefix ==
    <<"<", "<", "<", "<", "<", "<", "<", " ", "R", "E", "V", "I", "E", "W",
      " ", "T", "H", "R", "E", "A", "D", " ", "(">>

Header(n) == HeaderPrefix \o Itoa(n) \o <<")">>

Separator == <<"=", "=", "=", "=", "=", "=", "=">>

Trailer ==
    <<">", ">", ">", ">", ">", ">", ">", " ", "E", "N", "D", " ",
      "R", "E", "V", "I", "E", "W">>

\* fmt.Sprintf("%s %s: %s", ts, c.user, sanitize(c.body))
CommentLine(c) ==
    FormatTime(c.created) \o <<" ">> \o c.user \o <<":", " ">> \o sanitize(c.body)

buildBlock(cs) ==
    <<Header(Len(cs))>> \o [i \in DOMAIN cs |-> CommentLine(cs[i])] \o <<Separator>>

-----------------------------------------------------------------------------
(* Lines of a file: bufio.Scanner with ScanLines, strings.Join *)

dropCR(s) == IF s # <<>> /\ s[Len(s)] = "\r" THEN SubSeq(s, 1, Len(s) - 1) ELSE s

RECURSIVE ScanLines(_)
ScanLines(data) ==
    IF data = <<>> THEN <<>>
    ELSE IF \E i \in DOMAIN data : data[i] = "\n"
         THEN LET i == CHOOSE k \in DOMAIN data :
                          /\ data[k] = "\n"
                          /\ \A j \in 1..(k - 1) : data[j] # "\n"
              IN  <<dropCR(SubSeq(data, 1, i - 1))>>
                      \o ScanLines(SubSeq(data, i + 1, Len(data)))
         ELSE <<dropCR(data)>>

\* strings.Join(src, "\n") + "\n"
JoinLines(lines) ==
    IF lines = <<>> THEN <<"\n">>
    ELSE Flatten([i \in DOMAIN lines |->
                    IF i < Len(lines) THEN lines[i] \o <<"\n">> ELSE lines[i]])
             \o <<"\n">>

\* fmt.Printf("%6d %s\n", i+1, l)
Pad6(n) == [k \in 1..(6 - Min(6, Len(Itoa(n)))) |-> " "] \o Itoa(n)

\* the dry-run rendering of injectThreads
Render(path, lines) ==
    <<"-", "-", "-", " ", path, " ", "(", "d", "r", "y", "-", "r", "u", "n", ")", "\n">>
        \o Flatten([i \in DOMAIN lines |-> Pad6(i) \o <<" ">> \o lines[i] \o <<"\n">>])

-----------------------------------------------------------------------------
(* The splice loop of injectThreads *)

\* Vanished with the upper bound off by one: the last line counts as gone
VanishedOffByOne(line, lines) == line - 1 < 0 \/ line - 1 >= Len(lines) - 1

\* idx < 0 || idx >= len(src), with idx = th.line - 1
Vanished(line, lines) == line - 1 < 0 \/ line - 1 >= Len(lines)

\* Splice without the trailer line
SpliceNoTrailer(lines, th) ==
    SubSeq(lines, 1, th.line - 1)
        \o buildBlock(th.comments)
        \o <<lines[th.line]>>
        \o SubSeq(lines, th.line + 1, Len(lines))

\* insertion := block ++ [src[idx], trailer]; src = src[:idx] ++ insertion ++ src[idx+1:]
Splice(lines, th) ==
    SubSeq(lines, 1, th.line - 1)
        \o buildBlock(th.comments)
        \o <<lines[th.line], Trailer>>
        \o SubSeq(lines, th.line + 1, Len(lines))

\* the loop over threads: the resulting lines and the diagnostics printed
RECURSIVE InjectLoop(_, _, _)
InjectLoop(path, lines, threads) ==
    IF threads = <<>> THEN [lines |-> lines, log |-> <<>>]
    ELSE LET th == Head(threads) IN
         IF Vanished(th.line, lines)
         THEN LET rest == InjectLoop(path, lines, Tail(threads))
              IN  [lines |-> rest.lines,
                   log   |-> <<[kind |-> "vanished", path |-> path, line |-> th.line]>>
                                 \o rest.log]
         ELSE InjectLoop(path, Splice(lines, th), Tail(threads))

-----------------------------------------------------------------------------
(* sort.Slice as main uses it *)

Perms(n) == { p \in [1..n -> 1..n] : \A i, j \in 1..n : i # j => p[i] # p[j] }

\* the less function of the comment sort: created.Before
Before(a, b) == a.created < b.created

\* sort.Slice(t.comments, ...): package sort promises an order in which no
\* element is less than an earlier one, and nothing about elements that
\* compare equal ("The sort is not guaranteed to be stable"). The sort of
\* Go 1.21 leaves equal elements in place in slices of up to 12 elements and
\* moves them in longer ones; the model follows the documented contract.
SortSlice(cs) ==
    { [i \in DOMAIN cs |-> cs[p[i]]] :
        p \in { q \in Perms(Len(cs)) :
                  \A i, j \in DOMAIN cs : i < j => ~Before(cs[q[j]], cs[q[i]]) } }

\* every way the comment sort can leave the threads of one file
SortedMaps(lineMap) ==
    { f \in [DOMAIN lineMap -> UNION { SortSlice(lineMap[l]) : l \in DOMAIN lineMap }] :
        \A l \in DOMAIN lineMap : f[l] \in SortSlice(lineMap[l]) }

\* ThreadsDesc with the comparison turned round: ascending target lines
RECURSIVE ThreadsAsc(_)
ThreadsAsc(lineMap) ==
    IF DOMAIN lineMap = {} THEN <<>>
    ELSE LET m == CHOOSE l \in DOMAIN lineMap : \A k \in DOMAIN lineMap : l <= k
         IN  <<[line |-> m, comments |-> lineMap[m]]>>
                 \o ThreadsAsc([l \in DOMAIN lineMap \ {m} |-> lineMap[l]])

\* the threads of one file collected from the map and sorted by line
\* descending (the keys of a map are distinct, so the order is unique)
RECURSIVE ThreadsDesc(_)
ThreadsDesc(lineMap) ==
    IF DOMAIN lineMap = {} THEN <<>>
    ELSE LET m == CHOOSE l \in DOMAIN lineMap : \A k \in DOMAIN lineMap : k <= l
         IN  <<[line |-> m, comments |-> lineMap[m]]>>
                 \o ThreadsDesc([l \in DOMAIN lineMap \ {m} |-> lineMap[l]])

-----------------------------------------------------------------------------
(* getUnresolvedCommentIDs: one action per query of the pagination loop *)

\* A page of the reviewThreads connection is
\* [threads, hasNextPage, endCursor]; a thread is [isResolved, comments].

Cursors == {"c1", "c2"}

ThreadNodes == [isResolved : BOOLEAN, comments : SeqsUpTo(1..MaxId, MaxNodes)]

ThreadPages ==
    [threads : SeqsUpTo(ThreadNodes, MaxThreads), hasNextPage : BOOLEAN,
     endCursor : Cursors]

\* AddUnresolved without the test of the resolved flag
RECURSIVE AddAll(_, _)
AddAll(set, threads) ==
    IF threads = <<>> THEN set
    ELSE AddAll(set \cup Range(Head(threads).comments), Tail(threads))

\* the loop over the nodes of one page: resolved threads are skipped, the
\* comment ids of the others are added
RECURSIVE AddUnresolved(_, _)
AddUnresolved(set, threads) ==
    IF threads = <<>> THEN set
    ELSE IF Head(threads).isResolved
         THEN AddUnresolved(set, Tail(threads))
         ELSE AddUnresolved(set \cup Range(Head(threads).comments), Tail(threads))

\* what a page tells: which comment belongs to a thread with which flag
Pairs(page) ==
    UNION { { <<th.isResolved, id>> : id \in Range(th.comments) } :
              th \in Range(page.threads) }

\* a query that succeeds; the remote system has at most MaxPages pages
QueryOk(PS) ==
    /\ pc = "resolve"
    /\ \E page \in PS :
         /\ Len(qlog) < MaxPages - 1 \/ ~page.hasNextPage
         /\ qlog' = Append(qlog, [cursor |-> cursor, ok |-> TRUE,
                                  hasNextPage |-> page.hasNextPage,
                                  endCursor |-> page.endCursor])
         /\ seen' = seen \cup Pairs(page)
         /\ ids' = AddUnresolved(ids, page.threads)
         /\ IF page.hasNextPage
            THEN cursor' = page.endCursor /\ pc' = "resolve"
            ELSE UNCHANGED cursor /\ pc' = "resolved"
    /\ UNCHANGED <<dry, restPage, rlog, all, fileThreads, pending, handed, calls,
                   src, disk, orig, stdout, logged, arg, ret>>

FatalEntry == [kind |-> "fatal", path |-> "", line |-> 0]

\* a query that fails: log.Fatalf ends the process
QueryFail ==
    /\ pc = "resolve"
    /\ qlog' = Append(qlog, [cursor |-> cursor, ok |-> FALSE,
                             hasNextPage |-> FALSE, endCursor |-> Null])
    /\ logged' = Append(logged, FatalEntry)
    /\ pc' = "fatal"
    /\ UNCHANGED <<dry, cursor, ids, seen, restPage, rlog, all, fileThreads, pending,
                   handed, calls, src, disk, orig, stdout, arg, ret>>

\* main, after the resolver returned: nothing to do without unresolved ids
CheckUnresolved ==
    /\ pc = "resolved"
    /\ pc' = IF ids = {} THEN "done" ELSE "fetch"
    /\ UNCHANGED <<dry, cursor, ids, qlog, seen, restPage, rlog, all, fileThreads,
                   pending, handed, calls, src, disk, orig, stdout, logged, arg, ret>>

-----------------------------------------------------------------------------
(* fetchReviewComments: one action per request of the pagination loop *)

\* a request that succeeds: cs is the page, next is resp.NextPage (0: none);
\* the listing has at most MaxRestPages pages and its comments are distinct
ListOk(CS) ==
    /\ pc = "fetch"
    /\ \E cs \in CS : \E next \in {0, Len(rlog) + 2} :
         /\ Len(rlog) < MaxRestPages - 1 \/ next = 0
         /\ \A i \in DOMAIN cs : \A j \in DOMAIN all : cs[i].id # all[j].id
         /\ rlog' = Append(rlog, [page |-> restPage, ok |-> TRUE])
         /\ all' = all \o cs
         /\ IF next = 0
            THEN UNCHANGED restPage /\ pc' = "aggregate"
            ELSE restPage' = next /\ pc' = "fetch"
    /\ UNCHANGED <<dry, cursor, ids, qlog, seen, fileThreads, pending, handed, calls,
                   src, disk, orig, stdout, logged, arg, ret>>

\* ListFail with the error only logged: main goes on with the pages read
ListFailContinues ==
    /\ pc = "fetch"
    /\ rlog' = Append(rlog, [page |-> restPage, ok |-> FALSE])
    /\ logged' = Append(logged, FatalEntry)
    /\ pc' = "aggregate"
    /\ UNCHANGED <<dry, cursor, ids, qlog, seen, restPage, all, fileThreads, pending,
                   handed, calls, src, disk, orig, stdout, arg, ret>>

\* a request that fails: log.Fatalf ends the process
ListFail ==
    /\ pc = "fetch"
    /\ rlog' = Append(rlog, [page |-> restPage, ok |-> FALSE])
    /\ logged' = Append(logged, FatalEntry)
    /\ pc' = "fatal"
    /\ UNCHANGED <<dry, cursor, ids, qlog, seen, restPage, all, fileThreads, pending,
                   handed, calls, src, disk, orig, stdout, arg, ret>>

-----------------------------------------------------------------------------
(* The aggregation loop of main *)

\* A review comment of the listing is [id, user, body, created, path, line];
\* path and line are pointers: <<>> is nil, <<v>> points to v.

\* Skipped without the test against the unresolved set
SkippedNoFilter(c, unresolved) == c.path = <<>> \/ c.line = <<>>

\* the two continue statements of the loop
Skipped(c, unresolved) ==
    \/ c.path = <<>> \/ c.line = <<>>
    \/ c.id \notin unresolved

Info(c) == [id |-> c.id, user |-> nonEmpty(c.user), body |-> nonEmpty(c.body),
            created |-> c.created]

\* fileThreads[path][ln].comments = append(..., commentInfo{...}), creating
\* the inner map and the thread on first use
AddComment(m, c) ==
    LET p     == c.path[1]
        ln    == c.line[1]
        inner == IF p \in DOMAIN m THEN m[p] ELSE <<>>
        old   == IF ln \in DOMAIN inner THEN inner[ln] ELSE <<>>
    IN  (p :> ((ln :> Append(old, Info(c))) @@ inner)) @@ m

RECURSIVE AggLoop(_, _, _)
AggLoop(m, cs, unresolved) ==
    IF cs = <<>> THEN m
    ELSE IF Skipped(Head(cs), unresolved)
         THEN AggLoop(m, Tail(cs), unresolved)
         ELSE AggLoop(AddComment(m, Head(cs)), Tail(cs), unresolved)

Aggregate ==
    /\ pc = "aggregate"
    /\ fileThreads' = AggLoop(<<>>, all, ids)
    /\ pending' = DOMAIN fileThreads'
    /\ pc' = IF DOMAIN fileThreads' = {} THEN "done" ELSE "inject"
    /\ UNCHANGED <<dry, cursor, ids, qlog, seen, restPage, rlog, all, handed, calls, src,
                   disk, orig, stdout, logged, arg, ret>>

-----------------------------------------------------------------------------
(* One iteration of the injection loop of main: sort, injectThreads, report *)

ErrorEntry(path) == [kind |-> "error", path |-> path, line |-> 0]

\* what a failing os.WriteFile can leave on disk: the old bytes (the open
\* failed) or, after the truncating open, the first k bytes of the new data
FailedWrites(old, data) ==
    {old} \cup { SubSeq(data, 1, k) : k \in 0..Min(MaxPartial, Len(data) - 1) }

\* AfterFile with the loop left at the first error
AfterFileAbort(rest, failed) == IF rest = {} \/ failed THEN "done" ELSE "inject"

\* the range loop of main after one file: an error is logged and the loop
\* goes on with the paths left
AfterFile(rest, failed) == IF rest = {} THEN "done" ELSE "inject"

InjectFile(path) ==
    /\ pc = "inject"
    /\ path \in pending
    /\ pending' = pending \ {path}
    /\ \E sorted \in SortedMaps(fileThreads[path]) :
         LET threads == ThreadsDesc(sorted) IN
         /\ fileThreads' = [fileThreads EXCEPT ![path] = sorted]
         /\ handed' = (path :> threads) @@ handed
         /\ calls' = (path :> (IF path \in DOMAIN calls THEN calls[path] + 1 ELSE 1)) @@ calls
         /\ \/ \* os.ReadFile or the scanner fails: injectThreads returns the error
               /\ logged' = Append(logged, ErrorEntry(path))
               /\ pc' = AfterFile(pending', TRUE)
               /\ UNCHANGED <<src, disk, stdout>>
            \/ LET res == InjectLoop(path, ScanLines(disk[path]), threads) IN
               /\ src' = (path :> res.lines) @@ src
               /\ IF dry
                  THEN /\ stdout' = stdout \o Render(path, res.lines)
                       /\ logged' = logged \o res.log
                       /\ pc' = AfterFile(pending', FALSE)
                       /\ UNCHANGED disk
                  ELSE /\ UNCHANGED stdout
                       /\ \/ /\ disk' = [disk EXCEPT ![path] = JoinLines(res.lines)]
                             /\ logged' = logged \o res.log
                             /\ pc' = AfterFile(pending', FALSE)
                          \/ \E left \in FailedWrites(disk[path], JoinLines(res.lines)) :
                                /\ disk' = [disk EXCEPT ![path] = left]
                                /\ logged' = Append(logged \o res.log, ErrorEntry(path))
                                /\ pc' = AfterFile(pending', TRUE)
    /\ UNCHANGED <<dry, cursor, ids, qlog, seen, restPage, rlog, all, orig, arg, ret>>

-----------------------------------------------------------------------------
(* injectThreads on its own: one file, every thread layout main can hand over *)

FileChars == {"a", "\n", "\r"}

File == "a.go"

\* the i-th comment of a thread, in the form main stores it (commentInfo)
InjComment(i) == [id |-> i, user |-> <<"b">>, body |-> <<"x">>, created |-> 30 * i]

LineMaps ==
    UNION { [L -> { [i \in 1..n |-> InjComment(i)] : n \in 1..MaxThreadLen }] :
              L \in (SUBSET (0..MaxLine)) \ {{}} }

InitInject ==
    /\ pc = "inject"
    /\ dry \in BOOLEAN
    /\ pending = {File}
    /\ fileThreads \in { (File :> m) : m \in LineMaps }
    /\ disk \in { (File :> d) : d \in SeqsUpTo(FileChars, MaxFileLen) }
    /\ orig = disk
    /\ ids = 1..MaxThreadLen
    /\ cursor = Null /\ qlog = <<>> /\ seen = {} /\ restPage = 0 /\ rlog = <<>>
    /\ all = <<>>
    /\ handed = <<>> /\ calls = <<>> /\ src = <<>>
    /\ stdout = <<>> /\ logged = <<>> /\ arg = <<>> /\ ret = <<>>

NextInject == \E path \in {File} : InjectFile(path)

SpecInject == InitInject /\ [][NextInject]_vars

-----------------------------------------------------------------------------
(* Properties of injectThreads *)

RECURSIVE Sum(_, _)
Sum(f, S) == IF S = {} THEN 0
             ELSE LET x == CHOOSE y \in S : TRUE IN f[x] + Sum(f, S \ {x})

CountNL(s) == Cardinality({ i \in DOMAIN s : s[i] = "\n" })

\* the lines the file had when the run started, as the scanner cuts them:
\* the content of a line is what precedes its "\n" or "\r\n"
OrigLines(path) == ScanLines(orig[path])

\* the threads handed over whose target line exists in the original file
InBounds(path) ==
    { i \in DOMAIN handed[path] :
        handed[path][i].line >= 1 /\ handed[path][i].line <= Len(OrigLines(path)) }

\* lines a block adds: the opening marker, one per comment, "=======", the trailer
BlockSize(path) == [i \in DOMAIN handed[path] |-> Len(handed[path][i].comments) + 3]

\* where the opening marker of thread i has to be: its target line, moved
\* down by the blocks of the threads in bounds that target a smaller line
HeaderAt(path, i) ==
    handed[path][i].line
        + Sum(BlockSize(path),
              { j \in InBounds(path) : handed[path][j].line < handed[path][i].line })

\* C2: after injectThreads, the block of every thread whose target line L is
\* within the original file is followed by the original content of line L
\* and then by the END REVIEW trailer, whatever was inserted for other lines.
C2_IndexStability ==
    \A path \in DOMAIN src : \A i \in InBounds(path) :
        LET th == handed[path][i]
            n  == Len(th.comments)
            h  == HeaderAt(path, i)
            R  == src[path]
        IN  /\ h + n + 3 <= Len(R)
            /\ R[h] = Header(n)
            /\ \A k \in 1..n : R[h + k] = CommentLine(th.comments[k])
            /\ R[h + n + 1] = Separator
            /\ R[h + n + 2] = OrigLines(path)[th.line]
            /\ R[h + n + 3] = Trailer

\* a file was injected with at least two threads in bounds, at different lines
C2_Witness ==
    \E path \in DOMAIN src : \E i, j \in InBounds(path) :
        handed[path][i].line < handed[path][j].line

VanishedLog(path) ==
    SelectSeq(logged, LAMBDA e : e.kind = "vanished" /\ e.path = path)

RECURSIVE KeepInBounds(_, _)
KeepInBounds(threads, n) ==
    IF threads = <<>> THEN <<>>
    ELSE IF Head(threads).line >= 1 /\ Head(threads).line <= n
         THEN <<Head(threads)>> \o KeepInBounds(Tail(threads), n)
         ELSE KeepInBounds(Tail(threads), n)

\* C5: a thread whose target line is below 1 or beyond the file's line count
\* is reported once and inserts nothing, no error is returned for it, and
\* the resulting lines are those of injecting the threads in bounds alone.
C5_VanishedSkipped ==
    \A path \in DOMAIN src :
        LET n == Len(OrigLines(path)) IN
        /\ { e.line : e \in Range(VanishedLog(path)) }
              = { handed[path][i].line : i \in DOMAIN handed[path] \ InBounds(path) }
        /\ Len(VanishedLog(path)) = Cardinality(DOMAIN handed[path] \ InBounds(path))
        /\ Len(src[path]) = n + Sum(BlockSize(path), InBounds(path))
        /\ src[path] = InjectLoop(path, OrigLines(path), KeepInBounds(handed[path], n)).lines
        /\ dry => ErrorEntry(path) \notin Range(logged)

\* a file was injected with one thread out of bounds and one in bounds
C5_Witness ==
    \E path \in DOMAIN src :
        /\ InBounds(path) # {}
        /\ DOMAIN handed[path] \ InBounds(path) # {}

\* C7 as claimed: in dry-run mode the file is not written and the number of
\* lines printed equals the original line count plus the inserted block sizes.
C7_DryRunLineCount ==
    dry => /\ disk = orig
           /\ \A path \in DOMAIN src :
                 CountNL(stdout) = Len(OrigLines(path)) + Sum(BlockSize(path), InBounds(path))

\* C7 as amended: in dry-run mode the file is not written, and the output is
\* one "--- <path> (dry-run)" line followed by as many numbered lines as the
\* original line count plus the inserted block sizes.
C7_DryRunPurity ==
    dry => /\ disk = orig
           /\ \A path \in DOMAIN src :
                 /\ CountNL(stdout)
                      = 1 + Len(OrigLines(path)) + Sum(BlockSize(path), InBounds(path))
                 /\ stdout = Render(path, src[path])

\* a dry run rendered a file with a thread in bounds
C7_Witness ==
    /\ dry
    /\ \E path \in DOMAIN src : InBounds(path) # {} /\ stdout # <<>>

-----------------------------------------------------------------------------
(* main from the aggregation on: every short listing, every unresolved set *)

Paths == {"a.go", "b.go"}

Times == { 30 * k : k \in 0..MaxTick }

\* where the comments of the listing are anchored: nowhere, half, or at a
\* line of a file
Anchors ==
    { [path |-> <<>>, line |-> <<>>], [path |-> <<"a.go">>, line |-> <<>>],
      [path |-> <<>>, line |-> <<1>>], [path |-> <<"a.go">>, line |-> <<1>>],
      [path |-> <<"a.go">>, line |-> <<2>>], [path |-> <<"b.go">>, line |-> <<1>>] }

Comment(id, user, body, created, anchor) ==
    [id |-> id, user |-> user, body |-> body, created |-> created,
     path |-> anchor.path, line |-> anchor.line]

First == [path |-> <<"a.go">>, line |-> <<1>>]

\* comments that differ in where they are anchored
PlacedComments(id) == { Comment(id, <<"b">>, <<"x">>, 0, a) : a \in Anchors }

\* comments of one thread that differ in author and body
WordedComments(id) ==
    { Comment(id, u, b, 0, First) : u \in {<<>>, <<"b">>}, b \in {<<>>, <<"x">>} }

\* comments of one thread that differ in creation time
TimedComments(id) == { Comment(id, <<"b">>, <<"x">>, t, First) : t \in Times }

\* listings of distinct comments (ids are unique in the remote system)
Listings(CS, n) ==
    { l \in UNION { [1..k -> CS] : k \in 0..n } :
        \A i, j \in DOMAIN l : i # j => l[i].id # l[j].id }

MainComments(id) == PlacedComments(id) \cup WordedComments(id) \cup TimedComments(id)

TwoLines == <<"a", "\n", "a", "\n">>

InitMain ==
    /\ pc = "aggregate"
    /\ dry \in BOOLEAN
    /\ ids \in (SUBSET (1..MaxId)) \ {{}}
    /\ all \in Listings(UNION { MainComments(id) : id \in 1..MaxId }, MaxComments)
    /\ disk = [p \in Paths |-> TwoLines]
    /\ orig = disk
    /\ cursor = Null /\ qlog = <<>> /\ seen = {} /\ restPage = 0 /\ rlog = <<>>
    /\ fileThreads = <<>> /\ pending = {}
    /\ handed = <<>> /\ calls = <<>> /\ src = <<>>
    /\ stdout = <<>> /\ logged = <<>> /\ arg = <<>> /\ ret = <<>>

NextMain ==
    \/ Aggregate
    \/ \E path \in Paths : InjectFile(path)

SpecMain == InitMain /\ [][NextMain]_vars

Aggregated == pc \in {"inject", "done"}

\* indices k with fileThreads[p][l][k] made from comment c
Places(c, p, l) ==
    IF p \in DOMAIN fileThreads /\ l \in DOMAIN fileThreads[p]
    THEN { k \in DOMAIN fileThreads[p][l] : fileThreads[p][l][k].id = c.id }
    ELSE {}

\* C1: a comment is in the aggregated map iff it has a path and a line and
\* its id is in the unresolved set; it is then once in the thread of its own
\* (path, line) and in no other thread.
C1_Filtering ==
    Aggregated =>
        \A c \in Range(all) : \A p \in Paths : \A l \in 0..MaxLine :
            Cardinality(Places(c, p, l))
                = IF c.path = <<p>> /\ c.line = <<l>> /\ c.id \in ids THEN 1 ELSE 0

\* the aggregation kept one comment and dropped another
C1_Witness ==
    /\ Aggregated
    /\ \E c, d \in Range(all) : \E p \in Paths : \E l \in 0..MaxLine :
          /\ Places(c, p, l) # {}
          /\ d.path # <<>> /\ d.line # <<>> /\ d.id \notin ids

\* position of the comment with this id in the listing
PosInAll(id) == CHOOSE k \in DOMAIN all : all[k].id = id

\* C4 as claimed: the comments of every thread handed to injectThreads are
\* in creation order, and comments created at the same time keep the order
\* of the listing.
C4_StableByCreation ==
    \A path \in DOMAIN handed : \A t \in DOMAIN handed[path] :
        LET cs == handed[path][t].comments IN
        \A i, j \in DOMAIN cs : i < j =>
            /\ cs[i].created <= cs[j].created
            /\ cs[i].created = cs[j].created => PosInAll(cs[i].id) < PosInAll(cs[j].id)

\* the comment of the listing a stored comment was made from
Source(ci) == all[PosInAll(ci.id)]

\* C10 as claimed: an empty author is rendered as "unknown", an empty body
\* is rendered as the empty text.
C10_EmptyBodyVerbatim ==
    \A path \in DOMAIN src : \A i \in InBounds(path) :
        LET cs == handed[path][i].comments IN
        \A k \in DOMAIN cs :
            LET c == Source(cs[k]) IN
            src[path][HeaderAt(path, i) + k]
                = FormatTime(c.created) \o <<" ">>
                     \o (IF c.user = <<>> THEN Unknown ELSE c.user)
                     \o <<":", " ">>
                     \o (IF c.body = <<>> THEN <<>> ELSE sanitize(c.body))

\* C10 as amended: an empty author is rendered as "unknown", and so is an
\* empty body.
C10_EmptyRenderedUnknown ==
    \A path \in DOMAIN src : \A i \in InBounds(path) :
        LET cs == handed[path][i].comments IN
        \A k \in DOMAIN cs :
            LET c == Source(cs[k]) IN
            src[path][HeaderAt(path, i) + k]
                = FormatTime(c.created) \o <<" ">>
                     \o (IF c.user = <<>> THEN Unknown ELSE c.user)
                     \o <<":", " ">>
                     \o (IF c.body = <<>> THEN Unknown ELSE sanitize(c.body))

\* a comment with an empty author and one with an empty body were rendered
C10_Witness ==
    \E path \in DOMAIN src : \E i \in InBounds(path) :
        \E k, m \in DOMAIN handed[path][i].comments :
            /\ Source(handed[path][i].comments[k]).user = <<>>
            /\ Source(handed[path][i].comments[m]).body = <<>>

-----------------------------------------------------------------------------
(* getUnresolvedCommentIDs on its own: every page the remote system can send *)

InitResolve ==
    /\ pc = "resolve"
    /\ dry \in BOOLEAN
    /\ cursor = Null /\ ids = {} /\ qlog = <<>> /\ seen = {} /\ restPage = 0 /\ rlog = <<>>
    /\ all = <<>> /\ fileThreads = <<>> /\ pending = {}
    /\ handed = <<>> /\ calls = <<>> /\ src = <<>>
    /\ disk = [p \in Paths |-> TwoLines] /\ orig = disk
    /\ stdout = <<>> /\ logged = <<>> /\ arg = <<>> /\ ret = <<>>

NextResolve ==
    \/ QueryOk(ThreadPages)
    \/ QueryFail
    \/ CheckUnresolved

SpecResolve == InitResolve /\ [][NextResolve]_vars

\* the ids of the comments of the unresolved threads on the pages read
UnresolvedRead == { id \in 1..MaxId : <<FALSE, id>> \in seen }

Returned == pc \in {"resolved", "fetch", "done"}

\* C3: the first query carries the null cursor and each later one the end
\* cursor of the page before, which reported a next page; the function
\* returns after the first page without a next page, with exactly the ids of
\* the comments of the unresolved threads on the pages read.
C3_Pagination ==
    /\ qlog # <<>> => qlog[1].cursor = Null
    /\ \A q \in DOMAIN qlog : q > 1 =>
          /\ qlog[q - 1].ok
          /\ qlog[q - 1].hasNextPage
          /\ qlog[q].cursor = qlog[q - 1].endCursor
    /\ pc = "resolve" => \A q \in DOMAIN qlog : qlog[q].ok /\ qlog[q].hasNextPage
    /\ Returned =>
          /\ qlog # <<>>
          /\ qlog[Len(qlog)].ok
          /\ ~qlog[Len(qlog)].hasNextPage
          /\ ids = UnresolvedRead

\* the function returned after two pages that held a resolved and an
\* unresolved thread with comments
C3_Witness ==
    /\ pc = "resolved"
    /\ Len(qlog) >= 2
    /\ ids # {}
    /\ \E id \in 1..MaxId : <<TRUE, id>> \in seen /\ id \notin ids

-----------------------------------------------------------------------------
(* The whole run of main, on a small remote system *)

SmallThreads ==
    { <<>>,
      <<[isResolved |-> FALSE, comments |-> <<1>>]>>,
      <<[isResolved |-> TRUE, comments |-> <<1>>],
        [isResolved |-> FALSE, comments |-> <<2>>]>> }

SmallPages == [threads : SmallThreads, hasNextPage : BOOLEAN, endCursor : {"c1"}]

\* line 3 is beyond the two lines of the files
SmallComments ==
    [id : {1, 2}, user : {<<"b">>}, body : {<<"x">>}, created : {0},
     path : {<<>>} \cup { <<p>> : p \in Paths }, line : {<<1>>, <<3>>}]

SmallBatches == SeqsUpTo(SmallComments, 1)

Init == InitResolve

Next ==
    \/ QueryOk(SmallPages)
    \/ QueryFail
    \/ CheckUnresolved
    \/ ListOk(SmallBatches)
    \/ ListFail
    \/ Aggregate
    \/ \E path \in Paths : InjectFile(path)

Spec == Init /\ [][Next]_vars

\* C6: once a page of the resolution query or of the comment listing has
\* failed, the run is over: the failed query is the last remote query, and
\* no file has been read, rendered or written.
C6_RemoteFailureFatal ==
    LET qFailed == { q \in DOMAIN qlog : ~qlog[q].ok }
        rFailed == { r \in DOMAIN rlog : ~rlog[r].ok }
    IN  /\ qFailed \subseteq {Len(qlog)}
        /\ rFailed \subseteq {Len(rlog)}
        /\ qFailed # {} => rlog = <<>>
        /\ qFailed \cup rFailed # {} =>
              /\ pc = "fatal"
              /\ fileThreads = <<>> /\ handed = <<>> /\ calls = <<>> /\ src = <<>>
              /\ disk = orig /\ stdout = <<>>

\* the second page of the comment listing failed
C6_Witness ==
    /\ pc = "fatal"
    /\ Len(rlog) = 2 /\ ~rlog[2].ok
    /\ all # <<>>

Failed(path) == ErrorEntry(path) \in Range(logged)

\* C9: every file with threads gets one injectThreads call, whatever
\* happened to the files before it; an error is reported once, for the file
\* it belongs to; a file without an error holds the result of its own
\* threads on its own original lines, and a file not yet visited is untouched.
C9_PerFileIsolation ==
    /\ DOMAIN calls = DOMAIN fileThreads \ pending
    /\ \A path \in DOMAIN calls : calls[path] = 1
    /\ pc = "done" => pending = {}
    /\ \A path \in Paths :
          /\ Cardinality({ k \in DOMAIN logged : logged[k] = ErrorEntry(path) }) <= 1
          /\ Failed(path) => path \in DOMAIN calls
          /\ path \notin DOMAIN calls => disk[path] = orig[path]
          /\ path \in DOMAIN calls /\ ~Failed(path) =>
                /\ path \in DOMAIN src
                /\ src[path] = InjectLoop(path, OrigLines(path), handed[path]).lines
                /\ disk[path] = IF dry THEN orig[path] ELSE JoinLines(src[path])

\* the run ended with one file in error and another file rewritten
C9_Witness ==
    /\ pc = "done"
    /\ \E p, q \in DOMAIN calls :
          /\ Failed(p)
          /\ ~Failed(q) /\ disk[q] # orig[q]

-----------------------------------------------------------------------------
(* sanitize on its own *)

BodyChars == {"a", " ", "\n", "\r", "*", "/", "<", "=", ">"}

InitSanitize ==
    /\ pc = "call"
    /\ arg \in SeqsUpTo(BodyChars, MaxBody)
    /\ ret = <<>>
    /\ dry = FALSE /\ cursor = Null /\ ids = {} /\ qlog = <<>> /\ seen = {}
    /\ restPage = 0 /\ rlog = <<>> /\ all = <<>> /\ fileThreads = <<>> /\ pending = {}
    /\ handed = <<>> /\ calls = <<>> /\ src = <<>> /\ disk = <<>> /\ orig = <<>>
    /\ stdout = <<>> /\ logged = <<>>

CallSanitize ==
    /\ pc = "call"
    /\ ret' = sanitize(arg)
    /\ pc' = "return"
    /\ UNCHANGED <<dry, cursor, ids, qlog, seen, restPage, rlog, all, fileThreads, pending,
                   handed, calls, src, disk, orig, stdout, logged, arg>>

NextSanitize == CallSanitize

SpecSanitize == InitSanitize /\ [][NextSanitize]_vars

MarkerChars == {"<", "=", ">"}

\* C8: the result of sanitize holds no newline, no carriage return and none
\* of the characters the marker lines are built from, and has no leading or
\* trailing whitespace.
C8_SanitizeMarkerSafe ==
    pc = "return" =>
        /\ Range(ret) \cap ({"\n", "\r"} \cup MarkerChars) = {}
        /\ ret # <<>> => ~IsSpace(ret[1]) /\ ~IsSpace(ret[Len(ret)])

=============================================================================
